---- MODULE Spec2Model ----
(***************************************************************************)
(* CPF normalisation and validation of workout_api                         *)
(* (src/workout_api/atleta/controller.py), and the GET /cpf/{cpf} handler  *)
(* that uses them.                                                         *)
(*                                                                         *)
(* A Python str is a sequence of characters; a character is a TLA+ string. *)
(* ASCII characters stand for themselves, "U+0665" is ARABIC-INDIC DIGIT   *)
(* FIVE (a Unicode decimal digit that is not in the class [0-9]).          *)
(* The outcome of a call is "True", "False" or the name of the exception   *)
(* it raises.                                                              *)
(***************************************************************************)
EXTENDS Integers, Sequences, FiniteSets

VARIABLES cpf, pc, cpf_limpo, cpf_limpo2, ret, resposta, queries, atletas, atleta

vars == <<cpf, pc, cpf_limpo, cpf_limpo2, ret, resposta, queries, atletas, atleta>>

(***************************************************************************)
(* Bounds of the explored inputs.                                          *)
(***************************************************************************)
\* longest string of the exhaustive family of raw strings
MaxLen == 3
\* most non-zero digits of the 11-digit strings enumerated exhaustively
MaxNonZero == 2

(***************************************************************************)
(* Program constants.                                                      *)
(***************************************************************************)
CpfLen == 11
Modulo == 11
Peso1 == 10
\* the weights of the first sum used again in the second
Peso2Copiado == Peso1

Peso2 == 11

(***************************************************************************)
(* Characters.                                                             *)
(***************************************************************************)
DigitChars == <<"0", "1", "2", "3", "4", "5", "6", "7", "8", "9">>

AsciiDigits == {DigitChars[i] : i \in 1..10}

ArabicFive == "U+0665"

NonDigits == {".", "-", " ", "a", ArabicFive}

\* the character of a decimal digit 0..9
Chr(d) == DigitChars[d + 1]

\* the string of a sequence of decimal digits
Str(ds) == [i \in 1..Len(ds) |-> Chr(ds[i])]

\* Python's s * n for a one-character s
Repeat(c, n) == [i \in 1..n |-> c]

\* the class \D under Unicode matching: every Unicode decimal digit is kept
MatchesNaoDecimal(c) == c \notin AsciiDigits /\ c # ArabicFive

\* the class \W: letters and digits are kept
MatchesNaoPalavra(c) == c \notin AsciiDigits \cup {"a", ArabicFive}

\* the class [^0-9] of the regular expression: everything but '0'..'9'
MatchesNonDigit(c) == c \notin AsciiDigits

KeepChar(c) == ~MatchesNonDigit(c)

\* re.sub(r"[^0-9]", "", cpf, count=1): only the first match is removed
limpar_cpf_count1(s) ==
    LET hits == {i \in 1..Len(s) : MatchesNonDigit(s[i])}
        first == CHOOSE i \in hits : \A j \in hits : i <= j
    IN  IF hits = {} THEN s
        ELSE SubSeq(s, 1, first - 1) \o SubSeq(s, first + 1, Len(s))

\* re.sub(r"[^0-9]", "", cpf)
limpar_cpf(s) == SelectSeq(s, KeepChar)

\* int(c) of a one-character string: every Unicode decimal digit converts,
\* anything else raises ValueError (CanInt is false)
CanInt(c) == c \in AsciiDigits \/ c = ArabicFive

int(c) == IF c = ArabicFive THEN 5 ELSE CHOOSE d \in 0..9 : Chr(d) = c

\* f"{n}" of a non-negative integer below 100
Format(n) == IF n < 10 THEN <<Chr(n)>> ELSE <<Chr(n \div 10), Chr(n % 10)>>

\* s[-2:]
LastTwo(s) == IF Len(s) <= 2 THEN s ELSE SubSeq(s, Len(s) - 1, Len(s))

RECURSIVE soma(_, _, _)
\* sum(int(cpf[i]) * (peso - i) for i in range(n))
soma(s, peso, n) ==
    IF n = 0 THEN 0
    ELSE soma(s, peso, n - 1) + int(s[n]) * (peso - (n - 1))

\* 11 - resto, without the rule for remainders below 2
digito_sem_regra(resto) == Modulo - resto

\* 0 if resto <= 2 else 11 - resto
digito_limiar(resto) == IF resto <= 2 THEN 0 ELSE Modulo - resto

\* 0 if resto < 2 else 11 - resto
digito(resto) == IF resto < 2 THEN 0 ELSE Modulo - resto

\* the generator expression over range(n) raises IndexError past the end of
\* the string and ValueError at a character int() rejects, whichever index
\* comes first
SomaRaises(s, n) ==
    LET bad == {i \in 1..n : i > Len(s) \/ ~CanInt(s[i])}
        first == CHOOSE i \in bad : \A j \in bad : i <= j
    IN  IF bad = {} THEN "none"
        ELSE IF first > Len(s) THEN "IndexError" ELSE "ValueError"

\* len(cpf) < 11
TamanhoCurto(s) == Len(s) < CpfLen

\* len(cpf) != 11
TamanhoInvalido(s) == Len(s) # CpfLen

\* no rejection of the repeated digit
NuncaIguais(s) == FALSE

\* cpf == cpf[0] * 11
TodosIguais(s) == s = Repeat(s[1], CpfLen)

\* validar_cpf after its first statement, on the cleaned string s
ValidarLimpo(s) ==
    IF TamanhoInvalido(s) THEN "False"
    ELSE IF Len(s) = 0 THEN "IndexError"
    ELSE IF TodosIguais(s) THEN "False"
    ELSE IF SomaRaises(s, CpfLen - 2) # "none" THEN SomaRaises(s, CpfLen - 2)
    ELSE IF SomaRaises(s, CpfLen - 1) # "none" THEN SomaRaises(s, CpfLen - 1)
    ELSE LET digito1 == digito(soma(s, Peso1, CpfLen - 2) % Modulo)
             digito2 == digito(soma(s, Peso2, CpfLen - 1) % Modulo)
         IN  IF LastTwo(s) = Format(digito1) \o Format(digito2)
             THEN "True" ELSE "False"

\* validar_cpf without its first statement
validar_cpf_sem_limpar(raw) == ValidarLimpo(raw)

validar_cpf(raw) == ValidarLimpo(limpar_cpf(raw))

(***************************************************************************)
(* Inputs.                                                                 *)
(***************************************************************************)
Alphabet == {"0", "5"} \cup NonDigits

RECURSIVE StringsOfLen(_)
StringsOfLen(n) ==
    IF n = 0 THEN {<<>>}
    ELSE {Append(s, c) : s \in StringsOfLen(n - 1), c \in Alphabet}

\* every string over Alphabet of at most MaxLen characters
ShortStrings == UNION {StringsOfLen(n) : n \in 0..MaxLen}

\* the sets of at most MaxNonZero positions of an 11-digit string
SparsePositions == {Q \in SUBSET (1..CpfLen) : Cardinality(Q) <= MaxNonZero}

\* the 11-digit string with digit f[i] at the positions i of P and 0 elsewhere
Sparse(P, f) == Str([i \in 1..CpfLen |-> IF i \in P THEN f[i] ELSE 0])

\* one digit repeated 10, 11 or 12 times
RepeatedCpfs == {Repeat(Chr(d), n) : d \in 0..9, n \in (CpfLen - 1)..(CpfLen + 1)}

\* the identifiers the specification names, and a second valid one
KnownCpfs ==
    { Str(<<5, 2, 9, 9, 8, 2, 2, 4, 7, 2, 5>>),
      Str(<<1, 2, 3, 4, 5, 6, 7, 8, 9, 0, 9>>),
      Str(<<1, 2, 3, 4, 5, 6, 7, 8, 9, 0, 0>>),
      Str(<<1, 1, 1, 1, 1, 1, 1, 1, 1, 1, 1>>) }

\* "ddd.ddd.ddd-dd"
Pontuar(s) ==
    SubSeq(s, 1, 3) \o <<".">> \o SubSeq(s, 4, 6) \o <<".">> \o SubSeq(s, 7, 9)
        \o <<"-">> \o SubSeq(s, 10, Len(s))

Insert(s, p, c) == SubSeq(s, 1, p - 1) \o <<c>> \o SubSeq(s, p, Len(s))

Replace(s, p, c) == [s EXCEPT ![p] = c]

\* a known identifier with one character inserted or replaced
EditedCpfs ==
    UNION { {Insert(s, p, c) : p \in 1..(Len(s) + 1), c \in AsciiDigits \cup NonDigits}
            \cup {Replace(s, p, c) : p \in 1..Len(s), c \in AsciiDigits \cup NonDigits}
            : s \in KnownCpfs }

\* the inputs other than the sparse 11-digit strings
OtherInputs ==
    ShortStrings \cup RepeatedCpfs \cup KnownCpfs
        \cup {Pontuar(s) : s \in KnownCpfs \cup RepeatedCpfs} \cup EditedCpfs

\* x is one of the explored inputs: a string of OtherInputs, or an 11-digit
\* string with at most MaxNonZero digits other than 0
IsInput(x) ==
    \/ x \in OtherInputs
    \/ \E P \in SparsePositions : \E f \in [P -> 1..9] : x = Sparse(P, f)

(***************************************************************************)
(* Calls of the two functions on an input.                                 *)
(***************************************************************************)
NoResposta == [status |-> 0, detail |-> ""]

Init ==
    /\ IsInput(cpf)
    /\ pc = "start"
    /\ cpf_limpo = <<>>
    /\ cpf_limpo2 = <<>>
    /\ ret = "none"
    /\ resposta = NoResposta
    /\ queries = <<>>
    /\ atletas = {}
    /\ atleta = "None"

\* limpar_cpf(cpf)
CallLimpar ==
    /\ pc = "start"
    /\ cpf_limpo' = limpar_cpf(cpf)
    /\ pc' = "limpo"
    /\ UNCHANGED <<cpf, cpf_limpo2, ret, resposta, queries, atletas, atleta>>

\* limpar_cpf(limpar_cpf(cpf))
CallLimparAgain ==
    /\ pc = "limpo"
    /\ cpf_limpo2' = limpar_cpf(cpf_limpo)
    /\ pc' = "limpo2"
    /\ UNCHANGED <<cpf, cpf_limpo, ret, resposta, queries, atletas, atleta>>

\* validar_cpf(cpf) on the raw input
CallValidar ==
    /\ pc = "start"
    /\ ret' = validar_cpf(cpf)
    /\ pc' = "validado"
    /\ UNCHANGED <<cpf, cpf_limpo, cpf_limpo2, resposta, queries, atletas, atleta>>

\* validar_cpf(limpar_cpf(cpf))
CallValidarLimpo ==
    /\ pc = "limpo"
    /\ ret' = validar_cpf(cpf_limpo)
    /\ pc' = "validado_limpo"
    /\ UNCHANGED <<cpf, cpf_limpo, cpf_limpo2, resposta, queries, atletas, atleta>>

Next ==
    \/ CallLimpar
    \/ CallLimparAgain
    \/ CallValidar
    \/ CallValidarLimpo

Spec == Init /\ [][Next]_vars

(***************************************************************************)
(* GET /cpf/{cpf}: one request.  The path parameter is a non-empty string; *)
(* the table holds rows keyed by their cpf column.                         *)
(***************************************************************************)
StoredCpfs == {Str(<<5, 2, 9, 9, 8, 2, 2, 4, 7, 2, 5>>)}

GetInit ==
    /\ IsInput(cpf)
    /\ cpf # <<>>
    /\ pc = "get"
    /\ cpf_limpo = <<>>
    /\ cpf_limpo2 = <<>>
    /\ ret = "none"
    /\ resposta = NoResposta
    /\ queries = <<>>
    /\ atletas \in SUBSET StoredCpfs
    /\ atleta = "None"

\* filter_by(cpf=cpf): the raw path value
FiltroCru(raw, limpo) == raw

\* the key of select(AtletaModel).filter_by(cpf=...)
FiltroCpf(raw, limpo) == limpo

\* cpf_limpo = limpar_cpf(cpf)
GetLimpar ==
    /\ pc = "get"
    /\ cpf_limpo' = limpar_cpf(cpf)
    /\ pc' = "get_validar"
    /\ UNCHANGED <<cpf, cpf_limpo2, ret, resposta, queries, atletas, atleta>>

\* if not validar_cpf(cpf_limpo): raise HTTPException(400)
\* (an exception of validar_cpf would leave the handler as a 500)
GetValidar ==
    /\ pc = "get_validar"
    /\ ret' = validar_cpf(cpf_limpo)
    /\ IF ret' = "True"
       THEN /\ pc' = "get_query"
            /\ UNCHANGED resposta
       ELSE /\ pc' = "done"
            /\ resposta' = IF ret' = "False"
                           THEN [status |-> 400, detail |-> "CPF invalido"]
                           ELSE [status |-> 500, detail |-> "Internal Server Error"]
    /\ UNCHANGED <<cpf, cpf_limpo, cpf_limpo2, queries, atletas, atleta>>

\* result = await db_session.execute(...); atleta = result.scalars().first()
GetQuery ==
    /\ pc = "get_query"
    /\ LET key == FiltroCpf(cpf, cpf_limpo)
       IN  /\ queries' = Append(queries, key)
           /\ atleta' = IF key \in atletas THEN "row" ELSE "None"
    /\ pc' = "get_respond"
    /\ UNCHANGED <<cpf, cpf_limpo, cpf_limpo2, ret, resposta, atletas>>

\* if not atleta: raise HTTPException(404); return atleta
GetRespond ==
    /\ pc = "get_respond"
    /\ resposta' = IF atleta = "None"
                   THEN [status |-> 404, detail |-> "Atleta nao encontrado"]
                   ELSE [status |-> 200, detail |-> ""]
    /\ pc' = "done"
    /\ UNCHANGED <<cpf, cpf_limpo, cpf_limpo2, ret, queries, atletas, atleta>>

GetNext ==
    \/ GetLimpar
    \/ GetValidar
    \/ GetQuery
    \/ GetRespond

SpecGet == GetInit /\ [][GetNext]_vars

(***************************************************************************)
(* The claims.  The definitions below state what the specification says,   *)
(* independently of the definitions that follow the code.                  *)
(***************************************************************************)
IsDecimalChar(c) == c \in {"0", "1", "2", "3", "4", "5", "6", "7", "8", "9"}

AllDecimal(x) == \A i \in 1..Len(x) : IsDecimalChar(x[i])

\* the number of decimal digit characters of x
NumDigits(x) == Cardinality({i \in 1..Len(x) : IsDecimalChar(x[i])})

RECURSIVE DigitSubseq(_)
\* the decimal digit characters of x, in their order in x
DigitSubseq(x) ==
    IF x = <<>> THEN <<>>
    ELSE IF IsDecimalChar(Head(x)) THEN <<Head(x)>> \o DigitSubseq(Tail(x))
    ELSE DigitSubseq(Tail(x))

AllSame(x) == \A i \in 1..Len(x) : x[i] = x[1]

\* the value of the digit at 0-based index i of the digit string x
DigitAt(x, i) == CHOOSE d \in 0..9 : DigitChars[d + 1] = x[i + 1]

RECURSIVE WeightedSum(_, _, _)
\* sum(d[i] * (top - i)) for i = 0..last, d a sequence of numbers
WeightedSum(d, top, last) ==
    IF last < 0 THEN 0
    ELSE WeightedSum(d, top, last - 1) + d[last + 1] * (top - last)

CheckOf(sum) == IF sum % 11 < 2 THEN 0 ELSE 11 - (sum % 11)

FirstNine(x) == [i \in 1..9 |-> DigitAt(x, i - 1)]

Check1(x) == CheckOf(WeightedSum(FirstNine(x), 10, 8))

Check2(x) == CheckOf(WeightedSum(Append(FirstNine(x), Check1(x)), 11, 9))

\* a call of validar_cpf on the raw input has returned
Validated == pc = "validado"

\* a valid, already normalized identifier has been validated
ValidNormalized == Validated /\ ret = "True" /\ AllDecimal(cpf)

\* every other digit at 0-based index i of x makes validar_cpf return false
Sensitive(x, i) ==
    \A c \in AsciiDigits \ {x[i + 1]} : validar_cpf(Replace(x, i + 1, c)) = "False"

\* C1: on a string of exactly 11 decimal digits, not all identical,
\* validar_cpf returns true exactly when digit[9] = check1 and
\* digit[10] = check2, check2 being computed over the first nine digits
\* followed by check1.
C1_ValidIffCheckDigits ==
    (Validated /\ Len(cpf) = 11 /\ AllDecimal(cpf) /\ ~AllSame(cpf))
        => (ret = "True" <=> (DigitAt(cpf, 9) = Check1(cpf) /\ DigitAt(cpf, 10) = Check2(cpf)))

C1_Witness ==
    /\ Validated
    /\ cpf = Str(<<5, 2, 9, 9, 8, 2, 2, 4, 7, 2, 5>>)
    /\ Check1(cpf) = 2
    /\ Check2(cpf) = 5
    /\ ret = "True"

\* C2: validar_cpf returns false on every input, raw or normalized, whose
\* number of decimal digit characters is not 11.
C2_WrongLengthRejected ==
    /\ (Validated /\ NumDigits(cpf) # 11) => ret = "False"
    /\ (pc = "validado_limpo" /\ NumDigits(cpf_limpo) # 11) => ret = "False"

C2_Witness ==
    /\ Validated
    /\ cpf = Repeat("1", 12)
    /\ ret = "False"

\* C3: validar_cpf returns false on every input whose digits are 11 copies
\* of one digit, with or without separators.
C3_RepeatedDigitRejected ==
    (Validated /\ NumDigits(cpf) = 11 /\ AllSame(DigitSubseq(cpf))) => ret = "False"

C3_Witness ==
    /\ Validated
    /\ cpf = Pontuar(Repeat("0", 11))
    /\ ret = "False"

\* C4 as claimed: changing any one of the first nine digits of a valid
\* normalized CPF to another digit makes validar_cpf return false.
C4_Original ==
    ValidNormalized => \A i \in 0..8 : Sensitive(cpf, i)

\* C4 as amended: changing the digit at index 1, 2, 3, 4, 6, 7 or 8 of a
\* valid normalized CPF to another digit makes validar_cpf return false.
C4_InnerDigitsSensitive ==
    ValidNormalized => \A i \in {1, 2, 3, 4, 6, 7, 8} : Sensitive(cpf, i)

C4_Witness ==
    /\ ValidNormalized
    /\ cpf = Str(<<0, 0, 0, 0, 0, 1, 0, 0, 9, 0, 0>>)
    /\ ~Sensitive(cpf, 0)
    /\ Sensitive(cpf, 8)

\* C5 as claimed: at least 10 of the 11 positions of a valid normalized CPF
\* are sensitive.
C5_Original ==
    ValidNormalized => Cardinality({i \in 0..10 : Sensitive(cpf, i)}) >= 10

\* C5 as amended: at least 9 of the 11 positions of a valid normalized CPF
\* are sensitive, and the positions that are not are among indices 0 and 5.
C5_NineSensitive ==
    ValidNormalized =>
        /\ Cardinality({i \in 0..10 : Sensitive(cpf, i)}) >= 9
        /\ {i \in 0..10 : ~Sensitive(cpf, i)} \subseteq {0, 5}

C5_Witness ==
    /\ ValidNormalized
    /\ {i \in 0..10 : ~Sensitive(cpf, i)} = {0, 5}

\* C6: limpar_cpf(x) is the sequence of the characters '0'..'9' of x in
\* their order; it holds only digits and is no longer than x.
C6_DigitsInOrder ==
    pc = "limpo" =>
        /\ cpf_limpo = DigitSubseq(cpf)
        /\ AllDecimal(cpf_limpo)
        /\ Len(cpf_limpo) <= Len(cpf)

C6_Witness ==
    /\ pc = "limpo"
    /\ cpf = <<"5", ArabicFive, "0">>
    /\ cpf_limpo = <<"5", "0">>

\* C7: limpar_cpf(limpar_cpf(x)) = limpar_cpf(x).
C7_Idempotent ==
    pc = "limpo2" => cpf_limpo2 = cpf_limpo

C7_Witness ==
    /\ pc = "limpo2"
    /\ cpf = Pontuar(Str(<<5, 2, 9, 9, 8, 2, 2, 4, 7, 2, 5>>))
    /\ cpf_limpo2 = Str(<<5, 2, 9, 9, 8, 2, 2, 4, 7, 2, 5>>)

\* C8: every call of validar_cpf returns a boolean and raises nothing; an
\* input that is not a valid identifier gives false.
C8_Total ==
    pc \in {"validado", "validado_limpo"} =>
        /\ ret \in {"True", "False"}
        /\ (NumDigits(cpf) # 11 \/ AllSame(DigitSubseq(cpf))) => ret = "False"

C8_Witness ==
    /\ Validated
    /\ Len(cpf) = 11
    /\ cpf[3] = "a"
    /\ ret = "False"

\* C9: validar_cpf(x) = validar_cpf(limpar_cpf(x)).
C9_NormalizesInternally ==
    pc = "validado_limpo" => ret = validar_cpf(cpf)

C9_Witness ==
    /\ pc = "validado_limpo"
    /\ cpf = Pontuar(Str(<<5, 2, 9, 9, 8, 2, 2, 4, 7, 2, 5>>))
    /\ ret = "True"
    /\ validar_cpf(cpf) = "True"

\* C10: in GET /cpf/{cpf}, a path value that fails validation ends as the
\* 400 "CPF invalido" error with no query; a query is executed only after
\* validation returned true, and its key is limpar_cpf(cpf).
C10_ValidationBeforeLookup ==
    /\ (pc = "done" /\ validar_cpf(limpar_cpf(cpf)) # "True")
           => (resposta = [status |-> 400, detail |-> "CPF invalido"] /\ queries = <<>>)
    /\ validar_cpf(limpar_cpf(cpf)) # "True" => queries = <<>>
    /\ queries # <<>> => ret = "True"
    /\ \A i \in 1..Len(queries) : queries[i] = limpar_cpf(cpf)

C10_Witness ==
    /\ pc = "done"
    /\ cpf = Pontuar(Str(<<5, 2, 9, 9, 8, 2, 2, 4, 7, 2, 5>>))
    /\ queries = <<Str(<<5, 2, 9, 9, 8, 2, 2, 4, 7, 2, 5>>)>>
    /\ resposta.status = 200

====
